---- MODULE Spec2Model ----
(***************************************************************************)
(* Boring Bot repository aggregation: the provider normalizers, the GitLab *)
(* group traversal, the sync loop (syncProvider) and the upsert into the   *)
(* repositories table, as given in the design document of the repository.  *)
(*                                                                         *)
(* Text values that the code splits or joins (full_name,                   *)
(* path_with_namespace, slug, ...) are sequences of one-character strings; *)
(* values that are only compared or concatenated (provider, id, uuid) are  *)
(* strings.                                                                *)
(***************************************************************************)
EXTENDS Integers, Sequences, FiniteSets, TLC

VARIABLES
    nraw,       \* normalization: the raw provider record handed to normalize
    nout,       \* normalization: the Repositories produced so far (none or one)
    tgraph,     \* traversal: the subgroups the provider reports for each group
    tstack,     \* traversal: the groups still to process, next first
    tvisits,    \* traversal: how many times each group has been listed
    tdone,      \* traversal: the traversal has returned
    runs,       \* sync: the invocations of syncProvider, one per slot
    store,      \* sync: the rows of the repositories table
    now,        \* sync: the clock (ms)
    lastTrigger \* sync: what the latest triggerSync did

normVars == <<nraw, nout>>
travVars == <<tgraph, tstack, tvisits, tdone>>
syncVars == <<runs, store, now, lastTrigger>>
vars == <<normVars, travVars, syncVars>>

-----------------------------------------------------------------------------
(* Bounds of the model *)

\* longest path segment (characters) of an enumerated raw record
MaxSegLen == 2
\* deepest GitLab path (segments, the project's own included)
MaxDepth == 3
\* number of GitLab groups of an enumerated group graph (the root included)
MaxGroups == 3
\* listing calls after which an endless traversal is cut off
MaxCalls == 6
\* invocations of syncProvider in one behaviour
MaxRuns == 2

-----------------------------------------------------------------------------
(* Text helpers: String.prototype.split('/'), Array.prototype.join('/'),   *)
(* Array.prototype.slice, String(number)                                   *)

Providers == {"github", "gitlab", "bitbucket"}

Slash == "/"
Letters == {"a", "b"}

\* the non-empty slash-free texts of at most n letters
RECURSIVE SegsUpTo(_)
SegsUpTo(n) ==
    IF n = 0 THEN {}
    ELSE LET shorter == SegsUpTo(n - 1)
         IN  {<<c>> : c \in Letters} \cup shorter
               \cup {s \o <<c>> : s \in shorter, c \in Letters}

Segments == SegsUpTo(MaxSegLen)

\* s.split('/'): cut at every slash; always at least one (possibly empty) part
RECURSIVE Split(_)
Split(s) ==
    IF s = <<>> THEN << <<>> >>
    ELSE LET rest == Split(Tail(s))
         IN  IF Head(s) = Slash
             THEN << <<>> >> \o rest
             ELSE << <<Head(s)>> \o Head(rest) >> \o Tail(rest)

\* parts.join('/')
RECURSIVE Join(_)
Join(parts) ==
    IF parts = <<>> THEN <<>>
    ELSE IF Len(parts) = 1 THEN parts[1]
    ELSE parts[1] \o <<Slash>> \o Join(Tail(parts))

\* parts.slice(0, -1)
SliceButLast(parts) == SubSeq(parts, 1, Len(parts) - 1)

Digit(d) ==
    CASE d = 0 -> "0" [] d = 1 -> "1" [] d = 2 -> "2" [] d = 3 -> "3"
      [] d = 4 -> "4" [] d = 5 -> "5" [] d = 6 -> "6" [] d = 7 -> "7"
      [] d = 8 -> "8" [] d = 9 -> "9"

\* String(n) and `${n}` for a non-negative integer
RECURSIVE NumToString(_)
NumToString(n) ==
    IF n < 10 THEN Digit(n) ELSE NumToString(n \div 10) \o Digit(n % 10)

\* the language mappings a provider reports: name -> weight, as a set of pairs
EmptyLanguages == {}
LanguageMaps == {EmptyLanguages, {<<"Python", 65>>, <<"JavaScript", 35>>}}

-----------------------------------------------------------------------------
(* Normalization (one function per provider)                               *)

\* the fields of Repository that the claims read; url, description,
\* defaultBranch, visibility, createdAt and lastPushAt are copied from the
\* raw record like isArchived and are left out
Repository(id, provider, providerRepoId, fullName, groupPath, languages, isArchived, lastSyncAt) ==
    [id |-> id, provider |-> provider, providerRepoId |-> providerRepoId,
     fullName |-> fullName, groupPath |-> groupPath, languages |-> languages,
     isArchived |-> isArchived, lastSyncAt |-> lastSyncAt]

RECURSIVE Text(_)
Text(chars) == IF chars = <<>> THEN "" ELSE Head(chars) \o Text(Tail(chars))

\* a slip: the id built from the repository's name instead of its provider id
GitHubIdFromName(raw, languages, date) ==
    Repository("github:" \o Text(raw.full_name), "github",
               NumToString(raw.id), raw.full_name, Split(raw.full_name)[1],
               languages, raw.archived, date)

normalizeGitHubRepo(raw, languages, date) ==
    LET orgName == Split(raw.full_name)[1]
    IN  Repository("github:" \o NumToString(raw.id), "github",
                   NumToString(raw.id), raw.full_name, orgName, languages,
                   raw.archived, date)

\* a slip: the GitHub rule (first segment) applied to a GitLab path
GitLabFirstSegment(raw, date) ==
    Repository("gitlab:" \o NumToString(raw.id), "gitlab",
               NumToString(raw.id), raw.path_with_namespace,
               Split(raw.path_with_namespace)[1],
               raw.languages, raw.archived, date)

normalizeGitLabProject(raw, date) ==
    LET pathParts == Split(raw.path_with_namespace)
        groupPath == Join(SliceButLast(pathParts))
    IN  Repository("gitlab:" \o NumToString(raw.id), "gitlab",
                   NumToString(raw.id), raw.path_with_namespace, groupPath,
                   raw.languages, raw.archived, date)

normalizeBitbucketRepo(raw, workspace, projectKey, languages, date) ==
    Repository("bitbucket:" \o raw.uuid, "bitbucket", raw.uuid,
               workspace \o <<Slash>> \o projectKey \o <<Slash>> \o raw.slug,
               workspace \o <<Slash>> \o projectKey,
               languages, FALSE, date)

\* normalize(job.provider, repo, languages): the per-provider dispatch; the
\* Bitbucket workspace is the organization being synced, the project key is
\* the raw record's
normalize(provider, org, repo, languages, date) ==
    CASE provider = "github" -> normalizeGitHubRepo(repo, languages, date)
      [] provider = "gitlab" -> normalizeGitLabProject(repo, date)
      [] provider = "bitbucket" ->
            normalizeBitbucketRepo(repo, org, repo.projectKey, languages, date)

-----------------------------------------------------------------------------
(* Raw records of each provider *)

\* the slash-joined paths of exactly n segments
RECURSIVE PathsOf(_)
PathsOf(n) ==
    IF n = 1 THEN Segments
    ELSE {p \o <<Slash>> \o s : p \in PathsOf(n - 1), s \in Segments}

RawIds == {7, 42}

\* GitHub: full_name is "owner/name"
GitHubRaws ==
    [id : RawIds, full_name : PathsOf(2), archived : BOOLEAN]

\* GitLab: path_with_namespace is the namespace path followed by the project
\* path; languages is absent (here the empty mapping, as `|| {}` makes it) or
\* a mapping
GitLabRaws ==
    [id : RawIds,
     path_with_namespace : UNION {PathsOf(n) : n \in 1..MaxDepth},
     languages : {EmptyLanguages, {<<"TypeScript", 100>>}},
     archived : {FALSE}]

\* Bitbucket: uuid, slug and the key of the project the repository is in
BitbucketRaws ==
    [uuid : {"{u1}", "42"}, slug : Segments, projectKey : Segments]

SyncIdle ==
    /\ runs = <<>>
    /\ store = {}
    /\ now = 0
    /\ lastTrigger = <<>>

TravIdle ==
    /\ tgraph = <<>>
    /\ tstack = <<>>
    /\ tvisits = <<>>
    /\ tdone = FALSE

NormInit ==
    /\ TravIdle
    /\ SyncIdle
    /\ nout = <<>>
    /\ \/ nraw \in [provider : {"github"}, org : {<<>>}, raw : GitHubRaws]
       \/ nraw \in [provider : {"gitlab"}, org : {<<>>}, raw : GitLabRaws]
       \/ nraw \in [provider : {"bitbucket"}, org : Segments,
                    raw : BitbucketRaws]

\* normalize one raw record (the caller passes the languages it fetched)
Normalize ==
    /\ nout = <<>>
    /\ \E languages \in LanguageMaps :
         nout' = <<normalize(nraw.provider, nraw.org, nraw.raw, languages, 0)>>
    /\ UNCHANGED <<nraw, travVars, syncVars>>

NormNext == Normalize

SpecNorm == NormInit /\ [][NormNext]_vars

-----------------------------------------------------------------------------
(* C3 *)

\* index of the last slash of s, 0 when s has none
LastSlash(s) ==
    LET at == {i \in 1..Len(s) : s[i] = Slash}
    IN  IF at = {} THEN 0 ELSE CHOOSE i \in at : \A j \in at : j <= i

\* s without its last slash-delimited segment and the slash before it
WithoutLastSegment(s) == SubSeq(s, 1, LastSlash(s) - 1)

IsStrictPrefix(p, s) == Len(p) < Len(s) /\ SubSeq(s, 1, Len(p)) = p

\* C3: for every raw record of every provider the normalized groupPath is
\* fullName with its last slash-delimited segment (and the slash before it)
\* removed, and so a strict prefix of fullName.
C3_GroupPathIsParent ==
    \A i \in 1..Len(nout) :
        /\ nout[i].groupPath = WithoutLastSegment(nout[i].fullName)
        /\ IsStrictPrefix(nout[i].groupPath, nout[i].fullName)

\* a GitLab project three levels deep has been normalized
C3_Witness ==
    /\ nout # <<>>
    /\ nout[1].provider = "gitlab"
    /\ Len(Split(nout[1].fullName)) = 3
    /\ Len(Split(nout[1].groupPath)) = 2

-----------------------------------------------------------------------------
(* GitLab hierarchy traversal: list the projects of the group, list its    *)
(* subgroups, recursively process each subgroup                            *)

Groups == 1..MaxGroups
RootGroup == 1

\* the elements of a set of numbers in ascending order
RECURSIVE Ascending(_)
Ascending(S) ==
    IF S = {} THEN <<>>
    ELSE LET m == CHOOSE x \in S : \A y \in S : x <= y
         IN  <<m>> \o Ascending(S \ {m})

\* every subgroup relation a provider can report over the groups, a subgroup
\* shared by two parents and cycles included
TravInit ==
    /\ SyncIdle
    /\ nraw = <<>>
    /\ nout = <<>>
    /\ tgraph \in [Groups -> SUBSET Groups]
    /\ tstack = <<RootGroup>>
    /\ tvisits = [g \in Groups |-> 0]
    /\ tdone = FALSE

RECURSIVE SumVisits(_)
SumVisits(S) ==
    IF S = {} THEN 0
    ELSE LET g == CHOOSE x \in S : TRUE
         IN  tvisits[g] + SumVisits(S \ {g})

\* steps 1-3 for the next group: GET /groups/{id}/projects,
\* GET /groups/{id}/subgroups, then each subgroup in turn before whatever
\* was still to do (the recursion's order)
ProcessGroup ==
    /\ ~tdone
    /\ tstack # <<>>
    /\ SumVisits(Groups) < MaxCalls
    /\ LET g == Head(tstack)
       IN  /\ tvisits' = [tvisits EXCEPT ![g] = @ + 1]
           /\ tstack' = Ascending(tgraph[g]) \o Tail(tstack)
    /\ UNCHANGED <<tgraph, tdone, normVars, syncVars>>

\* no group is left to process: the traversal returns
TraversalReturns ==
    /\ ~tdone
    /\ tstack = <<>>
    /\ tdone' = TRUE
    /\ UNCHANGED <<tgraph, tstack, tvisits, normVars, syncVars>>

TravNext == ProcessGroup \/ TraversalReturns

SpecTraversal == TravInit /\ [][TravNext]_vars

\* C4: the GitLab traversal of one pass lists each (sub-)container at most
\* once, whatever finite subgroup relation the provider reports, shared
\* subgroups and cycles included (and so it terminates).
C4_EachGroupListedOnce ==
    \A g \in Groups : tvisits[g] <= 1

-----------------------------------------------------------------------------
(* Sync engine: syncProvider, the upsert and the trigger                   *)

Slots == 1..MaxRuns

\* SyncJob.organizations of the job configured for each provider
Organizations(provider) ==
    CASE provider = "github" -> << <<"a">>, <<"b">> >>
      [] provider = "gitlab" -> << <<"a">> >>
      [] provider = "bitbucket" -> << <<"a">> >>

\* adapter.requestDelayMs of each provider's adapter
requestDelayMs(provider) ==
    CASE provider = "github" -> 2
      [] provider = "gitlab" -> 1
      [] provider = "bitbucket" -> 3

\* the raw records a provider may report for an organization over time:
\* GitHub repository 7 is a/a and later renamed a/b (or deleted, its name
\* taken by the new repository 42); Bitbucket reuses GitHub's id text "7"
Catalog(provider, org) ==
    CASE provider = "github" /\ org = <<"a">> ->
            << [id |-> 7, full_name |-> <<"a", "/", "a">>, archived |-> FALSE],
               [id |-> 7, full_name |-> <<"a", "/", "b">>, archived |-> FALSE],
               [id |-> 42, full_name |-> <<"a", "/", "b">>, archived |-> TRUE] >>
      [] provider = "github" /\ org = <<"b">> ->
            << [id |-> 9, full_name |-> <<"b", "/", "a">>, archived |-> FALSE] >>
      [] provider = "gitlab" ->
            << [id |-> 7, path_with_namespace |-> <<"a", "/", "b", "/", "a">>,
                languages |-> {<<"TypeScript", 100>>}, archived |-> FALSE],
               [id |-> 42, path_with_namespace |-> <<"a", "/", "a">>,
                languages |-> EmptyLanguages, archived |-> FALSE] >>
      [] provider = "bitbucket" ->
            << [uuid |-> "7", slug |-> <<"a">>, projectKey |-> <<"b">>],
               [uuid |-> "{u1}", slug |-> <<"b">>, projectKey |-> <<"b">>] >>

\* the provider's id of a raw record, as text
RawKey(provider, raw) ==
    IF provider = "bitbucket" THEN raw.uuid ELSE NumToString(raw.id)

\* the provider's full path of a raw record
RawPath(provider, org, raw) ==
    CASE provider = "github" -> raw.full_name
      [] provider = "gitlab" -> raw.path_with_namespace
      [] provider = "bitbucket" ->
            org \o <<Slash>> \o raw.projectKey \o <<Slash>> \o raw.slug

RECURSIVE Pick(_, _)
Pick(cat, idx) ==
    IF idx = <<>> THEN <<>> ELSE <<cat[Head(idx)]>> \o Pick(cat, Tail(idx))

\* what listRepositories(org) can return: any of the catalog's records, no
\* two with the same id or the same path
Listings(provider, org) ==
    LET cat == Catalog(provider, org)
        distinct(I) ==
            \A i, j \in I : i # j =>
                /\ RawKey(provider, cat[i]) # RawKey(provider, cat[j])
                /\ RawPath(provider, org, cat[i]) # RawPath(provider, org, cat[j])
    IN  {Pick(cat, Ascending(I)) : I \in {J \in SUBSET DOMAIN cat : distinct(J)}}

\* how an awaited call to the provider or the store ends
CallOutcomes == {"ok", "error", "rateLimited"}

IdleRun ==
    [provider |-> "", pc |-> "idle", orgIdx |-> 0, repos |-> <<>>,
     repoIdx |-> 0, languages |-> EmptyLanguages,
     \* requests of the current pass: kind of the last two, ms slept since
     \* the last, ms slept between the last two (-1: fewer than two)
     prevKind |-> "none", reqKind |-> "none", slept |-> 0, gap |-> -1,
     \* times the last request was sent to the provider
     issued |-> 0,
     \* the repository in progress when the pass was asked to stop, 0 when
     \* it was not asked
     cancelAt |-> 0,
     \* the repositories between the start of their getLanguages and the
     \* end of the delay after their upsert, by index in repos
     inFlight |-> {},
     \* the current pass: repositories listed (-1: none yet), getLanguages
     \* calls issued, upserts done, failures that happened
     listed |-> -1, fetched |-> 0, upserts |-> 0, failures |-> <<>>,
     \* the passes that ended, the records upserted, the rows they
     \* overwrote, the status emitted
     ended |-> <<>>, wrote |-> {}, replaced |-> {}, statusOut |-> <<>>]

Active(r) == r.pc \notin {"idle", "resolved", "rejected", "settled"}

\* the promise of syncProvider has settled and its caller has not yet
\* taken the result
Unsettled(r) == r.pc \in {"resolved", "rejected"}

\* the caller takes a result as soon as there is one
NoneUnsettled == \A s \in Slots : ~Unsettled(runs[s])

\* the state of the pass a run is in, by where syncProvider stands
PassState(r) ==
    CASE r.pc = "listRepositories" -> "Listing"
      [] r.pc \in {"getLanguages", "upsertRepository", "sleep"} -> "PerRepoProcessing"
      [] OTHER -> "Idle"

InProgress(r) == PassState(r) \in {"Listing", "PerRepoProcessing"}

CurrentOrg(r) == Organizations(r.provider)[r.orgIdx]

\* a request of `kind` goes out to the provider
Request(r, kind) ==
    [r EXCEPT !.prevKind = r.reqKind, !.reqKind = kind,
              !.gap = IF r.reqKind = "none" THEN -1 ELSE r.slept,
              !.slept = 0, !.issued = 1]

\* line 373-374: the loop over job.organizations reaches organization idx
StartPass(r, idx) ==
    [r EXCEPT !.pc = "listRepositories", !.orgIdx = idx, !.repos = <<>>,
              !.repoIdx = 0, !.languages = EmptyLanguages,
              !.prevKind = "none", !.reqKind = "none", !.slept = 0, !.gap = -1,
              !.issued = 0, !.cancelAt = 0, !.inFlight = {}, !.listed = -1, !.fetched = 0, !.upserts = 0, !.failures = <<>>]

\* a status tracker that keeps the counts and loses the failure list
EmitStatusWithoutErrors(r, finishedAt) ==
    [provider |-> r.provider, organization |-> CurrentOrg(r),
     finishedAt |-> finishedAt, repoCount |-> r.upserts,
     errorCount |-> 0, errors |-> <<>>]

\* the sync-status record of a pass that ended
EmitStatus(r, finishedAt) ==
    [provider |-> r.provider, organization |-> CurrentOrg(r),
     finishedAt |-> finishedAt, repoCount |-> r.upserts,
     errorCount |-> Len(r.failures), errors |-> r.failures]

\* the pass of the run ends in `state`
EndPass(r, state, finishedAt) ==
    [r EXCEPT !.ended = Append(@, [organization |-> CurrentOrg(r),
                                    state |-> state, listed |-> r.listed,
                                    fetched |-> r.fetched,
                                    upserts |-> r.upserts,
                                    failures |-> r.failures]),
              !.statusOut = Append(@, EmitStatus(r, finishedAt)),
              !.inFlight = {}]

\* the inner loop is over: the outer loop goes on with the next
\* organization, or syncProvider returns
PassCompleted(r, finishedAt) ==
    LET e == EndPass(r, "Completed", finishedAt)
    IN  IF r.orgIdx < Len(Organizations(r.provider))
        THEN StartPass(e, r.orgIdx + 1)
        ELSE [e EXCEPT !.pc = "resolved"]

\* an awaited call threw: nothing in syncProvider catches, the promise of
\* syncProvider rejects and neither the rest of the pass nor the
\* organizations after it are run
\* a slip: the error is recorded and the invocation is left waiting on a
\* call that will not answer, so its pass never ends
ThrowAndHang(r, id, reason, finishedAt) ==
    [r EXCEPT !.failures = Append(@, [id |-> id, reason |-> reason]),
              !.pc = "pending"]

Throw(r, id, reason, finishedAt) ==
    LET f == [r EXCEPT !.failures = Append(@, [id |-> id, reason |-> reason])]
    IN  [EndPass(f, "Failed", finishedAt) EXCEPT !.pc = "rejected"]

\* a slip: a listing that failed part-way hands on the page it had, and the
\* pass goes on with it
ListingFailedAfterPage(r, reason, finishedAt) ==
    LET page == CHOOSE repos \in Listings(r.provider, CurrentOrg(r)) :
                    \A other \in Listings(r.provider, CurrentOrg(r)) :
                        Len(repos) >= Len(other)
    IN  IF page = <<>> THEN Throw(r, "", reason, finishedAt)
        ELSE [r EXCEPT !.repos = page, !.repoIdx = 1, !.pc = "getLanguages"]

\* line 374: listRepositories threw; the pass has no list and ends
ListingFailed(r, reason, finishedAt) == Throw(r, "", reason, finishedAt)

Reason(outcome, kind) == IF outcome = "rateLimited" THEN "RateLimitRejected" ELSE kind

\* a slip: rows matched on the provider's id alone
SameProviderRepoId(a, b) == a.providerRepoId = b.providerRepoId

SameKey(a, b) ==
    a.provider = b.provider /\ a.providerRepoId = b.providerRepoId

\* id TEXT PRIMARY KEY: a row with this id and another key refuses the insert
PrimaryKeyConflict(rows, rec) ==
    \E row \in rows : row.id = rec.id /\ ~SameKey(row, rec)

\* a plain INSERT, no conflict clause
InsertRepository(rows, rec) == rows \cup {rec}

\* the conflict target is full_name instead of (provider, provider_repo_id)
UpsertOnFullName(rows, rec) ==
    {row \in rows : row.fullName # rec.fullName /\ ~SameKey(row, rec)} \cup {rec}

\* insert or update on UNIQUE(provider, provider_repo_id); the row takes
\* every column of the record, last_sync_at included
\* a slip: an update that merges, keeping the stored languages when the
\* record brings none
UpsertKeepsLanguages(rows, rec) ==
    LET olds == {row \in rows : SameKey(row, rec)}
        kept == {row.languages : row \in olds} \ {EmptyLanguages}
        merged == IF rec.languages = EmptyLanguages /\ kept # {}
                  THEN [rec EXCEPT !.languages = CHOOSE l \in kept : TRUE]
                  ELSE rec
    IN  (rows \ olds) \cup {merged}

\* a slip: an update that rewrites the synced fields of the stored row and
\* leaves its names as they were
UpsertKeepsNames(rows, rec) ==
    LET olds == {row \in rows : SameKey(row, rec)}
    IN  IF olds = {} THEN rows \cup {rec}
        ELSE (rows \ olds) \cup
             {[row EXCEPT !.languages = rec.languages,
                          !.isArchived = rec.isArchived,
                          !.lastSyncAt = rec.lastSyncAt] : row \in olds}

upsertRepository(rows, rec) ==
    {row \in rows : ~SameKey(row, rec)} \cup {rec}

\* a trigger without a guard
NoGuard(provider) == TRUE

\* the guard of the trigger: no run of this provider's job is under way
\* a slip: the delay is started and not awaited, so the loop goes on to the
\* next repository while the delay of the last one is running
DelayNotAwaited(r) ==
    IF r.repoIdx < Len(r.repos)
    THEN [r EXCEPT !.repoIdx = @ + 1, !.pc = "getLanguages"]
    ELSE [r EXCEPT !.pc = "sleep"]

\* line 382: await sleep(adapter.requestDelayMs)
Delay(r) == [r EXCEPT !.pc = "sleep"]

ReentrancyGuard(provider) ==
    \A s \in Slots : runs[s].provider = provider => ~Active(runs[s])

SyncInit ==
    /\ nraw = <<>>
    /\ nout = <<>>
    /\ TravIdle
    /\ runs = [s \in Slots |-> IdleRun]
    /\ store = {}
    /\ now = 0
    /\ lastTrigger = [provider |-> "", outcome |-> "none"]

\* triggerSync(provider), or the scheduler's timer: run the provider's job
\* now, in the first free slot
TriggerSync(provider) ==
    /\ NoneUnsettled
    /\ IF ReentrancyGuard(provider)
       THEN \E s \in Slots :
                /\ runs[s].pc = "idle"
                /\ \A t \in Slots : t < s => runs[t].pc # "idle"
                /\ runs' = [runs EXCEPT ![s] =
                       [IdleRun EXCEPT !.provider = provider,
                                       !.pc = "authenticate"]]
                /\ lastTrigger' = [provider |-> provider, outcome |-> "started"]
       ELSE /\ lastTrigger' = [provider |-> provider, outcome |-> "refused"]
            /\ UNCHANGED runs
    /\ UNCHANGED <<store, now, normVars, travVars>>

\* lines 370-371: await adapter.authenticate(job.credentials)
Authenticate(s) ==
    /\ NoneUnsettled
    /\ runs[s].pc = "authenticate"
    /\ \E ok \in BOOLEAN :
         runs' = [runs EXCEPT ![s] =
                    IF ~ok THEN [@ EXCEPT !.pc = "rejected"]
                    ELSE IF Organizations(@.provider) = <<>>
                         THEN [@ EXCEPT !.pc = "resolved"]
                         ELSE StartPass(@, 1)]
    /\ UNCHANGED <<store, now, lastTrigger, normVars, travVars>>

\* line 374: const repos = await adapter.listRepositories(org)
ListRepositories(s) ==
    /\ NoneUnsettled
    /\ runs[s].pc = "listRepositories"
    /\ LET r == Request(runs[s], "listRepositories")
       IN  \/ \E outcome \in CallOutcomes \ {"ok"} :
                runs' = [runs EXCEPT ![s] =
                           ListingFailed(r, Reason(outcome, "TraversalFailure"), now)]
           \/ \E repos \in Listings(r.provider, CurrentOrg(r)) :
                LET l == [r EXCEPT !.repos = repos, !.listed = Len(repos)]
                IN  runs' = [runs EXCEPT ![s] =
                               IF repos = <<>> THEN PassCompleted(l, now)
                               ELSE [l EXCEPT !.pc = "getLanguages",
                                              !.repoIdx = 1]]
    /\ UNCHANGED <<store, now, lastTrigger, normVars, travVars>>

\* line 377: const languages = await adapter.getLanguages(org, repo.name)
GetLanguages(s) ==
    /\ NoneUnsettled
    /\ runs[s].pc = "getLanguages"
    /\ LET r == [Request(runs[s], "getLanguages") EXCEPT
                    !.fetched = @ + 1, !.inFlight = @ \cup {runs[s].repoIdx}]
           id == RawKey(r.provider, r.repos[r.repoIdx])
       IN  \/ \E outcome \in CallOutcomes \ {"ok"} :
                runs' = [runs EXCEPT ![s] =
                           Throw(r, id, Reason(outcome, "LanguageFetchFailure"), now)]
           \/ \E languages \in LanguageMaps :
                runs' = [runs EXCEPT ![s] =
                           [r EXCEPT !.languages = languages,
                                     !.pc = "upsertRepository"]]
    /\ UNCHANGED <<store, now, lastTrigger, normVars, travVars>>

\* lines 378-379: normalize, then await upsertRepository(normalized)
UpsertRepository(s) ==
    /\ NoneUnsettled
    /\ runs[s].pc = "upsertRepository"
    /\ LET r == runs[s]
           normalized == normalize(r.provider, CurrentOrg(r),
                                   r.repos[r.repoIdx], r.languages, now)
       IN  \/ /\ runs' = [runs EXCEPT ![s] =
                            Throw(r, normalized.providerRepoId, "UpsertFailure", now)]
              /\ UNCHANGED store
           \/ /\ ~PrimaryKeyConflict(store, normalized)
              /\ store' = upsertRepository(store, normalized)
              /\ runs' = [runs EXCEPT ![s] =
                            Delay([r EXCEPT !.upserts = @ + 1,
                                            !.wrote = @ \cup {normalized},
                                            !.replaced = @ \cup
                                                {row \in store : SameKey(row, normalized)}])]
    /\ UNCHANGED <<now, lastTrigger, normVars, travVars>>

\* lines 381-383: await sleep(adapter.requestDelayMs), then the next
\* repository, the next organization or the return
Sleep(s) ==
    /\ NoneUnsettled
    /\ runs[s].pc = "sleep"
    /\ LET d == requestDelayMs(runs[s].provider)
           r == [runs[s] EXCEPT !.slept = @ + d,
                                !.inFlight = @ \ {runs[s].repoIdx}]
       IN  /\ now' = now + d
           /\ runs' = [runs EXCEPT ![s] =
                         IF r.repoIdx < Len(r.repos)
                         THEN [r EXCEPT !.repoIdx = @ + 1,
                                        !.pc = "getLanguages"]
                         ELSE PassCompleted(r, now + d)]
    /\ UNCHANGED <<store, lastTrigger, normVars, travVars>>

\* the caller's await of syncProvider returns or throws; what the run
\* recorded is not kept
Settle(s) ==
    /\ Unsettled(runs[s])
    /\ runs' = [runs EXCEPT ![s] = [IdleRun EXCEPT !.pc = "settled"]]
    /\ UNCHANGED <<store, now, lastTrigger, normVars, travVars>>

Next ==
    \/ \E provider \in Providers : TriggerSync(provider)
    \/ \E s \in Slots : Authenticate(s)
    \/ \E s \in Slots : ListRepositories(s)
    \/ \E s \in Slots : GetLanguages(s)
    \/ \E s \in Slots : UpsertRepository(s)
    \/ \E s \in Slots : Sleep(s)
    \/ \E s \in Slots : Settle(s)

Spec == SyncInit /\ [][Next]_vars

\* one step of invocation s: an awaited call returns or throws, a delay
\* elapses, the caller takes the result
RunStep(s) ==
    \/ Authenticate(s)
    \/ ListRepositories(s)
    \/ GetLanguages(s)
    \/ UpsertRepository(s)
    \/ Sleep(s)
    \/ Settle(s)

\* syncProvider(job) called directly, by the scheduler's timer and by a
\* trigger at once: the function has no guard of its own, so invocations for
\* the same provider overlap
SyncProvider(provider) ==
    /\ NoneUnsettled
    /\ \E s \in Slots :
         /\ runs[s].pc = "idle"
         /\ \A t \in Slots : t < s => runs[t].pc # "idle"
         /\ runs' = [runs EXCEPT ![s] =
                [IdleRun EXCEPT !.provider = provider, !.pc = "authenticate"]]
    /\ lastTrigger' = [provider |-> provider, outcome |-> "started"]
    /\ UNCHANGED <<store, now, normVars, travVars>>

\* syncProvider called while no other invocation is pending: invocations
\* one after another, each followed from its call to the caller's taking
\* its result
SyncProviderAlone(provider) ==
    /\ \A s \in Slots : ~Active(runs[s])
    /\ SyncProvider(provider)

NextAlone ==
    \/ \E provider \in Providers : SyncProviderAlone(provider)
    \/ \E s \in Slots : RunStep(s)

\* every awaited call of an invocation eventually returns or throws, and
\* every delay elapses
SpecFair ==
    /\ SyncInit
    /\ [][NextAlone]_vars
    /\ \A s \in Slots : WF_vars(RunStep(s))

NextOverlapping ==
    \/ \E provider \in Providers : SyncProvider(provider)
    \/ \E s \in Slots : Authenticate(s)
    \/ \E s \in Slots : ListRepositories(s)
    \/ \E s \in Slots : GetLanguages(s)
    \/ \E s \in Slots : UpsertRepository(s)
    \/ \E s \in Slots : Sleep(s)
    \/ \E s \in Slots : Settle(s)

SpecOverlapping == SyncInit /\ [][NextOverlapping]_vars

\* a pass is asked to stop during the delay after a repository, before the
\* next repository's step; syncProvider takes no signal and reads no flag,
\* so the request changes nothing it does
Cancel(s) ==
    /\ NoneUnsettled
    /\ runs[s].pc = "sleep"
    /\ runs[s].cancelAt = 0
    /\ runs' = [runs EXCEPT ![s].cancelAt = runs[s].repoIdx]
    /\ UNCHANGED <<store, now, lastTrigger, normVars, travVars>>

NextCancellable ==
    \/ \E provider \in Providers : TriggerSync(provider)
    \/ \E s \in Slots : Cancel(s)
    \/ \E s \in Slots : Authenticate(s)
    \/ \E s \in Slots : ListRepositories(s)
    \/ \E s \in Slots : GetLanguages(s)
    \/ \E s \in Slots : UpsertRepository(s)
    \/ \E s \in Slots : Sleep(s)
    \/ \E s \in Slots : Settle(s)

SpecCancellable == SyncInit /\ [][NextCancellable]_vars

-----------------------------------------------------------------------------
(* Claims on the sync engine *)

\* the passes that have ended and whose run has not yet been taken
EndedPasses ==
    UNION {{<<s, k>> : k \in 1..Len(runs[s].ended)} : s \in Slots}

Ended(sk) == runs[sk[1]].ended[sk[2]]

\* C1: a pass of N listed repositories in which one repository failed (its
\* getLanguages or its upsert) made N-1 upserts, recorded exactly that one
\* error and processed every listed repository, those after the failing one
\* included.
C1_OneFailureIsIsolated ==
    \A sk \in EndedPasses :
        LET e == Ended(sk)
        IN  (e.listed >= 1 /\ Len(e.failures) = 1) =>
                /\ e.fetched = e.listed
                /\ e.upserts = e.listed - 1

\* C2: the store holds at most one row per (provider, providerRepoId), and
\* exactly one for every record a run has upserted, however often and with
\* whatever lastSyncAt it was upserted.
C2_OneRowPerKey ==
    /\ \A a, b \in store : SameKey(a, b) => a = b
    /\ \A s \in Slots : \A rec \in runs[s].wrote :
           Cardinality({row \in store : SameKey(row, rec)}) = 1

\* a run has upserted a record over a stored row that differed from it in
\* lastSyncAt alone, and the key has one row
C2_Witness ==
    \E s \in Slots : \E old \in runs[s].replaced : \E rec \in runs[s].wrote :
        /\ old # rec
        /\ [old EXCEPT !.lastSyncAt = 0] = [rec EXCEPT !.lastSyncAt = 0]
        /\ rec \in store
        /\ Cardinality({row \in store : SameKey(row, rec)}) = 1

\* C5: a pass ends Failed exactly when its listing failed; a pass whose
\* listing succeeded ends Completed whatever failed for its repositories.
C5_FailedOnlyOnTraversalFailure ==
    \A sk \in EndedPasses :
        (Ended(sk).state = "Failed") <=> (Ended(sk).listed = -1)

\* C6: no step removes a key from the store: every (provider,
\* providerRepoId) that has a row before a step has one after it.
C6_NeverDeletes ==
    [][\A row \in store : \E kept \in store' : SameKey(kept, row)]_vars

\* a pass has completed on an empty listing of an organization of which a
\* repository is still stored
C6_Witness ==
    \E sk \in EndedPasses : \E row \in store :
        /\ Ended(sk).state = "Completed"
        /\ Ended(sk).listed = 0
        /\ row.provider = runs[sk[1]].provider
        /\ Split(row.fullName)[1] = Ended(sk).organization

\* C7: any two consecutive requests of a pass to the provider are at least
\* requestDelayMs apart.
C7_RequestsAreSpaced ==
    \A s \in Slots :
        runs[s].gap # -1 => runs[s].gap >= requestDelayMs(runs[s].provider)

C9_LanguageFailureStillUpserts ==
    \A sk \in EndedPasses :
        \A i \in 1..Len(Ended(sk).failures) :
            LET f == Ended(sk).failures[i]
            IN  f.reason = "LanguageFetchFailure" =>
                    \E rec \in runs[sk[1]].wrote :
                        /\ rec.providerRepoId = f.id
                        /\ rec.languages = EmptyLanguages

C11_RateLimitRetriedOnce ==
    \A sk \in EndedPasses :
        \A i \in 1..Len(Ended(sk).failures) :
            LET f == Ended(sk).failures[i]
            IN  f.reason = "RateLimitRejected" =>
                    /\ runs[sk[1]].issued = 2
                    /\ f.id # "" => Ended(sk).state = "Completed"

\* C12: a repository keeps its identity when it is renamed: every stored row
\* has the id "{provider}:{providerRepoId}", a record upserted over a row of
\* the same (provider, providerRepoId) has that row's id whatever its
\* fullName, and afterwards the key has the upserted record as its only row.
C12_IdentitySurvivesRename ==
    /\ \A row \in store : row.id = row.provider \o ":" \o row.providerRepoId
    /\ \A s \in Slots : \A rec \in runs[s].wrote :
           /\ {row \in store : SameKey(row, rec)} = {rec}
           /\ \A old \in runs[s].replaced :
                  SameKey(old, rec) =>
                      /\ old.id = rec.id
                      /\ old = rec \/ old \notin store

\* a run has upserted a record over a stored row of the same key and another
\* fullName
C12_Witness ==
    \E s \in Slots : \E old \in runs[s].replaced : \E rec \in runs[s].wrote :
        /\ SameKey(old, rec)
        /\ old.fullName # rec.fullName
        /\ rec \in store

\* C13: an upsert replaces the whole row: the stored row of an upserted
\* record's key equals the record in every field, its lastSyncAt included,
\* and the row it replaced is gone unless it was equal in every field.
C13_UpsertReplacesEveryField ==
    \A s \in Slots : \A rec \in runs[s].wrote :
        /\ \A row \in store : SameKey(row, rec) => row = rec
        /\ \E row \in store : SameKey(row, rec)
        /\ \A old \in runs[s].replaced :
               SameKey(old, rec) /\ old # rec => old \notin store

\* a record with no languages and a later lastSyncAt was upserted over a row
\* that had languages, and the stored row is the record
C13_Witness ==
    \E s \in Slots : \E old \in runs[s].replaced : \E rec \in runs[s].wrote :
        /\ SameKey(old, rec)
        /\ old.languages # EmptyLanguages
        /\ rec.languages = EmptyLanguages
        /\ old.lastSyncAt < rec.lastSyncAt
        /\ rec \in store
        /\ old \notin store

C15_CancelStopsAtCheckpoint ==
    \A s \in Slots :
        runs[s].cancelAt > 0 =>
            /\ runs[s].fetched <= runs[s].cancelAt
            /\ runs[s].upserts <= runs[s].cancelAt
            /\ \A rec \in runs[s].wrote : \E row \in store : SameKey(row, rec)

OrgIndexes == UNION {DOMAIN Organizations(provider) : provider \in Providers}

C17_ListingPrecedesProcessing ==
    /\ \A s \in Slots :
           \/ runs[s].fetched > 0
           \/ runs[s].upserts > 0
           \/ PassState(runs[s]) = "PerRepoProcessing"
           => /\ runs[s].listed = Len(runs[s].repos)
              /\ runs[s].listed >= 1
              /\ runs[s].fetched <= runs[s].listed
    /\ \A sk \in EndedPasses :
           /\ Ended(sk).listed = -1 =>
                  /\ Ended(sk).state = "Failed"
                  /\ Ended(sk).fetched = 0
                  /\ Ended(sk).upserts = 0
           /\ Ended(sk).fetched > 0 => Ended(sk).listed >= Ended(sk).fetched

\* the listing of an invocation's second organization failed after the
\* pass of the first had upserted, and the failed pass upserted nothing
C17_Witness ==
    \E sk \in EndedPasses :
        /\ sk[2] = 2
        /\ Ended(sk).listed = -1
        /\ Ended(sk).upserts = 0
        /\ runs[sk[1]].ended[1].upserts > 0

\* C18: a pass works on one repository at a time: at most one repository of
\* a pass is between the start of its getLanguages and the end of the delay
\* after its upsert, and while a pass upserts or delays it is the
\* repository the loop stands at.
C18_OneRepositoryAtATime ==
    \A s \in Slots :
        /\ Cardinality(runs[s].inFlight) <= 1
        /\ runs[s].pc \in {"upsertRepository", "sleep"} =>
               runs[s].inFlight = {runs[s].repoIdx}
        /\ runs[s].pc = "getLanguages" => runs[s].inFlight = {}

\* a pass is in the delay of its second repository, the first one done
C18_Witness ==
    \E s \in Slots :
        /\ runs[s].pc = "sleep"
        /\ runs[s].repoIdx = 2
        /\ runs[s].inFlight = {2}
        /\ runs[s].upserts = 2

\* C19: a listing failure stays within its organization: an invocation that
\* has ended, and in which the listing of one organization failed, has run
\* a pass for every organization of its job.
C19_ListingFailureIsConfined ==
    \A s \in Slots :
        /\ Unsettled(runs[s])
        /\ \E k \in 1..Len(runs[s].ended) : runs[s].ended[k].listed = -1
        => /\ Len(runs[s].ended) = Len(Organizations(runs[s].provider))
           /\ \A k \in 1..Len(runs[s].ended) :
                  runs[s].ended[k].organization =
                      Organizations(runs[s].provider)[k]

\* C20: invocations for different providers never write the same row: no
\* two stored rows share an id, rows of different providers with the same
\* providerRepoId are distinct rows with distinct ids, and a stored row
\* leaves the store only in an upsert made by an invocation for the row's
\* own provider.
C20_ProvidersWriteDisjointRows ==
    /\ [](\A a, b \in store :
              /\ a.id = b.id => a = b
              /\ a.provider # b.provider => a.id # b.id)
    /\ [][\A row \in store :
              \/ row \in store'
              \/ \E s \in Slots :
                   /\ runs[s].pc = "upsertRepository"
                   /\ runs[s].provider = row.provider
                   /\ runs'[s].upserts = runs[s].upserts + 1]_vars

\* an invocation has upserted a record whose providerRepoId a stored row of
\* another provider has, and both rows are stored
C20_Witness ==
    \E s \in Slots : \E b \in runs[s].wrote : \E a \in store :
        /\ a.provider # b.provider
        /\ a.providerRepoId = b.providerRepoId
        /\ a.lastSyncAt < b.lastSyncAt
        /\ b \in store

====
